---- MODULE Spec2Model ----
(***************************************************************************)
(* Model of tensordict/utils.py: the shape inference of an index           *)
(* (_getitem_batch_size), the ellipsis normaliser                          *)
(* (convert_ellipsis_to_idx), the read and write of a KeyedJaggedTensor    *)
(* along its batch dimension (index_keyedjaggedtensor,                     *)
(* setitem_keyedjaggedtensor) and infer_size_impl; and of                  *)
(* NormalParamWrapper.forward of tensordict/nn/distributions/continuous.py.*)
(*                                                                         *)
(* The components share no state.  Each has a specification of its own     *)
(* (SpecShape, SpecEllipsis, SpecKJT, SpecInfer, SpecNormal) over the      *)
(* module's variables; the variables of the other components stay at       *)
(* their idle values.                                                      *)
(*                                                                         *)
(* Python values are modelled as follows.                                  *)
(*  - A call's outcome is a record: the exception it raised ("none" when   *)
(*    it returned) and the value it returned.                              *)
(*  - An index element is a record [k, v, n, c, sl]: k is its type,        *)
(*    v the value of an int, n the length of a list / 1-D tensor, c the    *)
(*    number of True entries of a bool tensor, sl the (start, stop, step)  *)
(*    of a slice, each <<>> for None or <<x>>.                             *)
(*  - Sequences are 1-based here and 0-based in the source.                *)
(***************************************************************************)
EXTENDS Integers, Sequences, FiniteSets, TLC

VARIABLES
    pc,           \* which component runs and whether its call has returned
    shape,        \* _getitem_batch_size: the input shape
    items,        \* _getitem_batch_size: the index
    bs,           \* _getitem_batch_size: the outcome
    idx,          \* convert_ellipsis_to_idx: the index
    batch_size,   \* convert_ellipsis_to_idx: the batch size
    new_index,    \* convert_ellipsis_to_idx: the outcome
    orig_tensor,  \* the KeyedJaggedTensor that is read and written in place
    call,         \* the last call on orig_tensor: operation, arguments, error,
                  \* and how the write resolved a repeated row (win)
    before,       \* orig_tensor as it was when the last call started
    out,          \* the KeyedJaggedTensor the last read returned
    nwrites,      \* number of writes made on orig_tensor
    view_shape,   \* infer_size_impl: the list passed as shape, as it is now
    given_shape,  \* infer_size_impl: the list passed as shape, as it was passed
    view_numel,   \* infer_size_impl: the number of elements (numel)
    inferred,     \* infer_size_impl: the outcome
    net_output,   \* NormalParamWrapper: what self.operator returned
    scale_mapping,\* NormalParamWrapper: the name of the mapping
    scale_lb,     \* NormalParamWrapper: the lower bound of the scale
    loc_scale     \* NormalParamWrapper.forward: the outcome

vars == <<pc, shape, items, bs, idx, batch_size, new_index,
          orig_tensor, call, before, out, nwrites,
          view_shape, given_shape, view_numel, inferred,
          net_output, scale_mapping, scale_lb, loc_scale>>

shapeVars == <<shape, items, bs>>
ellipsisVars == <<idx, batch_size, new_index>>
kjtVars == <<orig_tensor, call, before, out, nwrites>>
inferVars == <<view_shape, given_shape, view_numel, inferred>>
normalVars == <<net_output, scale_mapping, scale_lb, loc_scale>>

---------------------------------------------------------------------------
(* Bounds of the model.                                                    *)

\* Largest number of dimensions of a shape / batch size.
MaxRank == 3
\* Largest number of elements of an index tuple.
MaxIdxLen == 3
\* Largest number of elements of an index handed to convert_ellipsis_to_idx.
MaxEllLen == 4
\* Largest batch size of a KeyedJaggedTensor.
MaxBatch == 2
\* Largest number of values of one row under one key.
MaxLen == 1
\* Largest number of writes made on one KeyedJaggedTensor.
MaxWrites == 1
\* Largest number of entries of a shape handed to infer_size_impl.
MaxViewRank == 3
\* Largest entry of such a shape.
MaxViewDim == 2
\* Largest number of elements handed to infer_size_impl.
MaxNumel == 4
\* Largest size of the last dimension of an operator's output.
MaxOut == 4

---------------------------------------------------------------------------
(* Helpers on sequences.                                                   *)

\* All sequences over S of length 0..n.
SeqsUpTo(S, n) == UNION {[1..m -> S] : m \in 0..n}

\* s[1:] of Python: the empty sequence stays empty.
Rest(s) == IF Len(s) = 0 THEN <<>> ELSE Tail(s)

Max(a, b) == IF a >= b THEN a ELSE b

---------------------------------------------------------------------------
(* Index elements.                                                         *)

NoSlice == <<<<>>, <<>>, <<>>>>

IntItem(v) == [k |-> "int", v |-> v, n |-> 0, c |-> 0, sl |-> NoSlice]
SliceItem(start, stop, step) ==
    [k |-> "slice", v |-> 0, n |-> 0, c |-> 0, sl |-> <<start, stop, step>>]
ListItem(n) == [k |-> "list", v |-> 0, n |-> n, c |-> 0, sl |-> NoSlice]
\* a 1-D torch.Tensor of an integer dtype with n entries
TensorItem(n) == [k |-> "tensor", v |-> 0, n |-> n, c |-> 0, sl |-> NoSlice]
\* a 1-D torch.Tensor of dtype bool with n entries, c of them True
BoolItem(n, c) == [k |-> "bool", v |-> 0, n |-> n, c |-> c, sl |-> NoSlice]
NoneItem == [k |-> "none", v |-> 0, n |-> 0, c |-> 0, sl |-> NoSlice]
\* a string key: an element type the walk does not recognise
StrItem == [k |-> "str", v |-> 0, n |-> 0, c |-> 0, sl |-> NoSlice]

\* An index is a tuple of elements or one bare element.
TupleIndex(els) == [tup |-> TRUE, els |-> els]
BareIndex(el) == [tup |-> FALSE, els |-> <<el>>]

IsTensor(e) == e.k \in {"tensor", "bool"}

---------------------------------------------------------------------------
(* Outcomes.                                                               *)

Returned(v) == [err |-> "none", val |-> v]
Raised(e) == [err |-> e, val |-> <<>>]

---------------------------------------------------------------------------
(* slice.indices(length) and len(range(start, stop, step)), as CPython     *)
(* computes them; _getitem_batch_size line 117 calls both.                 *)

\* One bound of a slice, clipped: PySlice_AdjustIndices.
SliceBound(b, length, lower, upper, dflt) ==
    IF b = <<>> THEN dflt
    ELSE LET x == b[1]
         IN IF x < 0
            THEN Max(x + length, lower)
            ELSE IF x > upper THEN upper ELSE x

\* slice(start, stop, step).indices(length) as <<start, stop, step>>;
\* the step is non-zero (a zero step raises ValueError before).
SliceIndices(sl, length) ==
    LET step == IF sl[3] = <<>> THEN 1 ELSE sl[3][1]
        lower == IF step < 0 THEN -1 ELSE 0
        upper == IF step < 0 THEN length - 1 ELSE length
    IN <<SliceBound(sl[1], length, lower, upper,
                    IF step < 0 THEN upper ELSE lower),
         SliceBound(sl[2], length, lower, upper,
                    IF step < 0 THEN lower ELSE upper),
         step>>

\* len(range(start, stop, step)) for a non-zero step.
RangeLen(r) ==
    LET start == r[1]
        stop == r[2]
        step == r[3]
    IN IF step > 0
       THEN IF start < stop THEN ((stop - start - 1) \div step) + 1 ELSE 0
       ELSE IF start > stop THEN ((start - stop - 1) \div (-step)) + 1 ELSE 0

---------------------------------------------------------------------------
(* _getitem_batch_size(shape, items)                                       *)

\* The shape of a 1-D tensor index: items[0].shape.
ItemShape(e) == <<e.n>>

\* Lines 102-112: every element is a torch.Tensor and there are len(shape)
\* of them.  items[0] of an empty tuple raises IndexError.
AllTensorShape(els) ==
    IF Len(els) = 0
    THEN Raised("IndexError")
    ELSE IF \E i \in 2..Len(els) : ItemShape(els[i]) /= ItemShape(els[1])
         THEN Raised("RuntimeError: all tensor indices must have the same shape")
         ELSE Returned(ItemShape(els[1]))

\* The end of the walk forgetting the dimensions no element consumed.
WalkDone_dropRest(shp, pos, acc) == Returned(acc)

\* Lines 139-141: the dimensions iter_bs still holds are appended to bs.
WalkDone(shp, pos, acc) == Returned(acc \o SubSeq(shp, pos + 1, Len(shp)))

\* Lines 114-138: the walk.  i is the next element, pos the number of
\* dimensions iter_bs has handed out, acc the list bs built so far.
RECURSIVE WalkItems(_, _, _, _, _)
WalkItems(shp, els, i, pos, acc) ==
    IF i > Len(els)
    THEN WalkDone(shp, pos, acc)
    ELSE LET e == els[i]
         IN CASE e.k = "slice" ->
                   IF pos >= Len(shp)
                   THEN Raised("StopIteration")
                   ELSE IF e.sl[3] = <<0>>
                        THEN Raised("ValueError")
                        ELSE WalkItems(shp, els, i + 1, pos + 1,
                                 Append(acc,
                                     RangeLen(SliceIndices(e.sl, shp[pos + 1]))))
              [] e.k \in {"list", "tensor", "bool"} ->
                   IF pos >= Len(shp)
                   THEN Raised("StopIteration")
                   ELSE WalkItems(shp, els, i + 1, pos + 1,
                            Append(acc, IF e.k = "bool" THEN e.c ELSE e.n))
              [] e.k = "none" ->
                   WalkItems(shp, els, i + 1, pos, Append(acc, 1))
              [] e.k = "int" ->
                   IF pos >= Len(shp)
                   THEN Raised("RuntimeError: shape incompatible with index")
                   ELSE WalkItems(shp, els, i + 1, pos + 1, acc)
              [] OTHER -> Raised("NotImplementedError")

_getitem_batch_size(shp, its) ==
    LET \* lines 84-85: a one-element tuple is its element
        one == its.tup /\ Len(its.els) = 1
        bare == (~its.tup) \/ one
        e == its.els[1]
    IN IF bare /\ e.k = "int"
       THEN Returned(Rest(shp))                                \* 86-87
       ELSE IF bare /\ e.k = "bool"
       THEN Returned(<<e.c>> \o Rest(shp))                     \* 88-89
       ELSE IF bare /\ e.k \in {"tensor", "list"}
       THEN IF e.n > 0                                         \* 90-96
            THEN Returned(<<e.n>> \o Rest(shp))
            ELSE Returned(Rest(shp))
       ELSE LET els == its.els                                 \* 98-99
            IN IF (\A i \in 1..Len(els) : IsTensor(els[i]))
                  /\ Len(els) = Len(shp)
               THEN AllTensorShape(els)                        \* 102-112
               ELSE WalkItems(shp, els, 1, 0, <<>>)            \* 114-141

---------------------------------------------------------------------------
(* The array engine's own indexing, probe[idx].shape for a zero-filled     *)
(* tensor probe of the given shape: the yardstick the docstring of         *)
(* _getitem_batch_size names ("the size of the resulting indexed tensor"). *)
(* It is torch's rule for an index without ellipsis: an int selects and    *)
(* drops its dimension, a slice keeps it, None adds one of size 1, and the *)
(* lists / tensors (advanced indices) are broadcast to one shape, which    *)
(* replaces their dimensions where they stand when they are adjacent and   *)
(* moves to the front when they are not.                                   *)

IsAdvanced(e) == e.k \in {"list", "tensor", "bool"}

\* Number of 1-based positions i <= n of els that consume a dimension.
RECURSIVE Consumed(_, _)
Consumed(els, n) ==
    IF n = 0 THEN 0
    ELSE Consumed(els, n - 1) + (IF els[n].k = "none" THEN 0 ELSE 1)

\* Number of entries an advanced index selects.
AdvSize(e) == IF e.k = "bool" THEN e.c ELSE e.n

AdvSizes(els) == {AdvSize(els[i]) : i \in {j \in 1..Len(els) : IsAdvanced(els[j])}}

\* The 1-D shapes of the advanced indices broadcast: sizes other than 1 agree.
Broadcastable(els) == Cardinality(AdvSizes(els) \ {1}) <= 1

BroadcastSize(els) ==
    IF AdvSizes(els) \ {1} = {} THEN 1
    ELSE CHOOSE b \in AdvSizes(els) \ {1} : TRUE

\* idx indexes a tensor of shape shp without error.
ValidIndex(shp, its) ==
    LET els == its.els
    IN /\ Consumed(els, Len(els)) <= Len(shp)
       /\ \A i \in 1..Len(els) :
            LET e == els[i]
                d == shp[Consumed(els, i)]
            IN CASE e.k = "int" -> -d <= e.v /\ e.v < d
                 [] e.k = "slice" -> e.sl[3] = <<>> \/ e.sl[3][1] > 0
                 [] e.k \in {"list", "tensor"} -> e.n = 0 \/ d >= 1
                 [] e.k = "bool" -> e.n = d
                 [] e.k = "none" -> TRUE
                 [] OTHER -> FALSE
       /\ Broadcastable(els)

\* The dimensions the elements leave, in order; -1 stands for an advanced index.
RECURSIVE ProbeDims(_, _, _)
ProbeDims(shp, els, i) ==
    IF i > Len(els)
    THEN SubSeq(shp, Consumed(els, Len(els)) + 1, Len(shp))
    ELSE LET e == els[i]
             d == shp[Consumed(els, i)]
             rest == ProbeDims(shp, els, i + 1)
         IN CASE e.k = "int" -> rest
              [] e.k = "slice" -> <<RangeLen(SliceIndices(e.sl, d))>> \o rest
              [] e.k = "none" -> <<1>> \o rest
              [] OTHER -> <<-1>> \o rest

\* s without its entries equal to -1.
RECURSIVE DropMarks(_)
DropMarks(s) ==
    IF s = <<>> THEN <<>>
    ELSE IF Head(s) = -1 THEN DropMarks(Tail(s))
         ELSE <<Head(s)>> \o DropMarks(Tail(s))

ProbeShape(shp, its) ==
    LET dims == ProbeDims(shp, its.els, 1)
        marks == {i \in 1..Len(dims) : dims[i] = -1}
        b == BroadcastSize(its.els)
    IN IF marks = {} THEN dims
       ELSE LET lo == CHOOSE i \in marks : \A j \in marks : i <= j
                hi == CHOOSE i \in marks : \A j \in marks : i >= j
            IN IF hi - lo + 1 = Cardinality(marks)
               THEN DropMarks(SubSeq(dims, 1, lo - 1)) \o <<b>>
                        \o DropMarks(SubSeq(dims, hi + 1, Len(dims)))
               ELSE <<b>> \o DropMarks(dims)

---------------------------------------------------------------------------
(* The inputs of the shape inference.                                      *)

DimVals == {1, 2}

\* The shapes up to MaxRank dimensions, and the shape of the documented examples.
Shapes == SeqsUpTo(DimVals, MaxRank) \cup {<<4, 5, 6>>}

ItemVals ==
    { IntItem(0),
      SliceItem(<<>>, <<>>, <<>>), SliceItem(<<1>>, <<3>>, <<>>),
      SliceItem(<<>>, <<>>, <<2>>),
      ListItem(0), ListItem(2), TensorItem(2), BoolItem(2, 1),
      NoneItem }

Indexes ==
    {TupleIndex(els) : els \in SeqsUpTo(ItemVals, MaxIdxLen)}
        \cup {BareIndex(e) : e \in ItemVals}

Pending == [err |-> "pending", val |-> <<>>]

IdleShape == shape = <<>> /\ items = TupleIndex(<<>>) /\ bs = Pending
IdleEllipsis == idx = <<>> /\ batch_size = <<>> /\ new_index = Pending
IdleKJT ==
    /\ orig_tensor = <<>> /\ call = <<>> /\ before = <<>> /\ out = <<>>
    /\ nwrites = 0
IdleInfer ==
    /\ view_shape = <<>> /\ given_shape = <<>> /\ view_numel = 0
    /\ inferred = Pending
IdleNormal ==
    /\ net_output = <<>> /\ scale_mapping = "" /\ scale_lb = 0
    /\ loc_scale = Pending

InitShape ==
    /\ pc = "shape_call"
    /\ shape \in Shapes
    /\ items \in Indexes
    /\ bs = Pending
    /\ IdleEllipsis
    /\ IdleKJT
    /\ IdleInfer
    /\ IdleNormal

\* The call _getitem_batch_size(shape, items).
GetitemBatchSize ==
    /\ pc = "shape_call"
    /\ bs' = _getitem_batch_size(shape, items)
    /\ pc' = "shape_done"
    /\ UNCHANGED <<shape, items, ellipsisVars, kjtVars, inferVars, normalVars>>

NextShape == GetitemBatchSize

SpecShape == InitShape /\ [][NextShape]_vars

---------------------------------------------------------------------------
(* Claims on _getitem_batch_size.                                          *)

ShapeDone == pc = "shape_done"

\* C1: for every shape and every index tuple without ellipsis that is a
\* valid index of a tensor of that shape, _getitem_batch_size returns the
\* shape the indexed tensor has.  (The claim as stated; the code breaks it.)
C1_InferShapeEqualsProbe ==
    (ShapeDone /\ items.tup /\ ValidIndex(shape, items))
        => bs = Returned(ProbeShape(shape, items))

ExampleIndexC7 == TupleIndex(<<SliceItem(<<1>>, <<3>>, <<>>), NoneItem>>)

\* C7 as stated: _getitem_batch_size((4,5,6), (slice(1,3), None)) is (2,1,6).
C7_SliceNoneExample_asStated ==
    (ShapeDone /\ shape = <<4, 5, 6>> /\ items = ExampleIndexC7)
        => bs = Returned(<<2, 1, 6>>)

\* C7 amended: _getitem_batch_size((4,5,6), (slice(1,3), None)) is
\* (2,1,5,6): the slice keeps 2 of the 4, None adds an axis of size 1 and
\* consumes nothing, and the unconsumed 5 and 6 follow.
C7_SliceNoneExample ==
    (ShapeDone /\ shape = <<4, 5, 6>> /\ items = ExampleIndexC7)
        => bs = Returned(<<2, 1, 5, 6>>)

C7_Witness ==
    ShapeDone /\ shape = <<4, 5, 6>> /\ items = ExampleIndexC7
        /\ bs.err = "none" /\ Len(bs.val) = 4

\* C9: an index whose dimension-consuming elements (all but None) number
\* more than len(shape) makes _getitem_batch_size raise the "shape
\* incompatible with index" RuntimeError, whichever element exhausts the
\* shape.  (The claim as stated; the code breaks it.)
C9_ExhaustionRaisesDimensionMismatch ==
    (ShapeDone /\ items.tup /\ Consumed(items.els, Len(items.els)) > Len(shape))
        => bs.err = "RuntimeError: shape incompatible with index"

---------------------------------------------------------------------------
(* convert_ellipsis_to_idx(idx, batch_size)                                *)
(*                                                                         *)
(* An index element is a string here: "..." is Ellipsis, ":" is            *)
(* slice(None), and "0", "1" are two other elements (integers).  An index  *)
(* is a tuple of them or the bare Ellipsis.                                *)

Ell == "..."
FullSlice == ":"

\* Line 166: sum(_idx is Ellipsis for _idx in idx).
RECURSIVE NumEllipsis(_)
NumEllipsis(t) ==
    IF t = <<>> THEN 0
    ELSE (IF Head(t) = Ell THEN 1 ELSE 0) + NumEllipsis(Tail(t))

\* The check of line 167 counting the ellipses as explicit elements.
NotEnoughDims_countEllipsis(num_dims, t) == num_dims < Len(t)

\* Line 167: more explicit elements than dimensions.
NotEnoughDims(num_dims, t) == num_dims < Len(t) - NumEllipsis(t)

\* Line 174: the error raised at a second ellipsis.
MultipleEllipsis == "RuntimeError: An index can only have one ellipsis at most."

\* Lines 170-178: the loop over the elements.  i is the 0-based position,
\* start_pos is -1 for None.  Returns <<error, start_pos, after_ellipsis_length>>.
RECURSIVE ScanEllipsis(_, _, _, _)
ScanEllipsis(t, i, start_pos, after) ==
    IF i >= Len(t) THEN <<"none", start_pos, after>>
    ELSE LET item == t[i + 1]
         IN IF item = Ell /\ start_pos /= -1
            THEN <<MultipleEllipsis, start_pos, after>>
            ELSE ScanEllipsis(t, i + 1,
                     IF item = Ell THEN i ELSE start_pos,
                     IF item /= Ell /\ start_pos /= -1 THEN after + 1 ELSE after)

\* The length of the expansion forgetting the elements after the ellipsis.
EllipsisLength_noAfter(num_dims, after, before_len) == num_dims - before_len

\* Line 181.
EllipsisLength(num_dims, after, before_len) == num_dims - after - before_len

\* (slice(None),) * n: a non-positive n gives the empty tuple.
Slices(n) == [i \in 1..n |-> FullSlice]

convert_ellipsis_to_idx(ix, bsz) ==
    LET num_dims == Len(bsz)                                    \* 162
        t == IF ix.tup THEN ix.els ELSE <<Ell>>                 \* 164-165
    IN IF NotEnoughDims(num_dims, t)                            \* 167-168
       THEN Raised("RuntimeError: Not enough dimensions")
       ELSE LET scan == ScanEllipsis(t, 0, -1, 0)               \* 170-178
                start_pos == scan[2]
                after == scan[3]
            IN IF scan[1] /= "none" THEN Raised(scan[1])
               ELSE IF start_pos = -1
               THEN Raised("TypeError")      \* 181: num_dims - 0 - None
               ELSE LET len == EllipsisLength(num_dims, after, start_pos)
                        res == SubSeq(t, 1, start_pos)                     \* 183
                                 \o Slices(len)                            \* 185-187
                                 \o SubSeq(t, start_pos + 2,
                                           start_pos + 1 + after)          \* 189
                    IN IF Len(res) /= num_dims                  \* 191-194
                       THEN Raised("RuntimeError: new index incompatible")
                       ELSE Returned(res)

EllItems == {Ell, FullSlice, "0", "1"}

EllIndexes ==
    {TupleIndex(els) : els \in SeqsUpTo(EllItems, MaxEllLen)}
        \cup {BareIndex(Ell)}

InitEllipsis ==
    /\ pc = "ellipsis_call"
    /\ idx \in EllIndexes
    /\ batch_size \in SeqsUpTo(DimVals, MaxRank)
    /\ new_index = Pending
    /\ IdleShape
    /\ IdleKJT
    /\ IdleInfer
    /\ IdleNormal

\* The call convert_ellipsis_to_idx(idx, batch_size).
ConvertEllipsisToIdx ==
    /\ pc = "ellipsis_call"
    /\ new_index' = convert_ellipsis_to_idx(idx, batch_size)
    /\ pc' = "ellipsis_done"
    /\ UNCHANGED <<idx, batch_size, shapeVars, kjtVars, inferVars, normalVars>>

NextEllipsis == ConvertEllipsisToIdx

SpecEllipsis == InitEllipsis /\ [][NextEllipsis]_vars

---------------------------------------------------------------------------
(* Claims on convert_ellipsis_to_idx.                                      *)

EllipsisDone == pc = "ellipsis_done"

\* The index as a tuple: the bare Ellipsis is (Ellipsis,).
IdxTuple == IF idx.tup THEN idx.els ELSE <<Ell>>

EllipsisPositions == {i \in 1..Len(IdxTuple) : IdxTuple[i] = Ell}

\* Number of elements before / after the one ellipsis.
ElementsBefore == (CHOOSE i \in EllipsisPositions : TRUE) - 1
ElementsAfter == Len(IdxTuple) - ElementsBefore - 1

\* The tuple of len(batch_size) elements the spec describes: the elements
\* before the ellipsis, full slices, the elements after it.
ExpectedExpansion ==
    [i \in 1..Len(batch_size) |->
        IF i <= ElementsBefore THEN IdxTuple[i]
        ELSE IF i <= Len(batch_size) - ElementsAfter THEN FullSlice
        ELSE IdxTuple[i - Len(batch_size) + Len(IdxTuple)]]

\* C6: an index with exactly one ellipsis, b elements before it and a after
\* it, b + a <= len(batch_size), is expanded to a tuple of len(batch_size)
\* elements: the b elements, len(batch_size) - (b + a) full slices, the a
\* elements; the bare Ellipsis counts as (Ellipsis,).
C6_OneEllipsisExpansion ==
    (EllipsisDone /\ Cardinality(EllipsisPositions) = 1
        /\ ElementsBefore + ElementsAfter <= Len(batch_size))
        => /\ new_index = Returned(ExpectedExpansion)
           /\ Len(new_index.val) = Len(batch_size)

C6_Witness ==
    /\ EllipsisDone
    /\ Cardinality(EllipsisPositions) = 1
    /\ ElementsBefore = 1 /\ ElementsAfter = 1 /\ Len(batch_size) = 3
    /\ new_index.err = "none"
    /\ new_index.val = <<IdxTuple[1], FullSlice, IdxTuple[3]>>
    /\ IdxTuple[1] /= FullSlice /\ IdxTuple[3] /= FullSlice

\* C8 as stated: an index with two or more ellipses raises the "only one
\* ellipsis" error whatever the number of its other elements.
C8_TwoEllipsesRaiseMultiple_asStated ==
    (EllipsisDone /\ Cardinality(EllipsisPositions) >= 2)
        => new_index = Raised(MultipleEllipsis)

\* C8 amended: an index with two or more ellipses never yields a tuple; it
\* raises the "only one ellipsis" error when its other elements number at
\* most len(batch_size), and the "Not enough dimensions" error when they
\* number more (that check comes first).
C8_TwoEllipsesRaise ==
    (EllipsisDone /\ Cardinality(EllipsisPositions) >= 2)
        => new_index =
             IF Len(IdxTuple) - Cardinality(EllipsisPositions) <= Len(batch_size)
             THEN Raised(MultipleEllipsis)
             ELSE Raised("RuntimeError: Not enough dimensions")

C8_Witness ==
    /\ EllipsisDone
    /\ Cardinality(EllipsisPositions) = 2
    /\ Len(IdxTuple) = 3
    /\ Len(batch_size) = 2
    /\ new_index = Raised(MultipleEllipsis)

\* The RuntimeErrors convert_ellipsis_to_idx raises.
DimensionErrors ==
    {"RuntimeError: Not enough dimensions", "RuntimeError: new index incompatible"}

\* C13: an index tuple without ellipsis is returned unchanged when it has
\* len(batch_size) elements and raises a RuntimeError about the dimensions
\* when it has not; no other error is raised.
\* (The claim as stated; the code breaks it.)
C13_NoEllipsisUnchangedOrDimensionError ==
    (EllipsisDone /\ idx.tup /\ EllipsisPositions = {})
        => IF Len(IdxTuple) = Len(batch_size)
           THEN new_index = Returned(IdxTuple)
           ELSE new_index.err \in DimensionErrors

---------------------------------------------------------------------------
(* KeyedJaggedTensor: keys, lengths and offsets flattened row-major from   *)
(* (K, N), and the flat values and weights.  Batch rows are 0-based as in  *)
(* the source; k ranges over 1..K.                                         *)

RECURSIVE SumSeq(_)
SumSeq(s) == IF s = <<>> THEN 0 ELSE Head(s) + SumSeq(Tail(s))

\* torch.cat([lengths[:1] * 0, lengths]).cumsum(0): 0 and the running sums.
RECURSIVE CumSumFrom(_, _, _)
CumSumFrom(lengths, i, acc) ==
    IF i > Len(lengths) THEN <<acc>>
    ELSE <<acc>> \o CumSumFrom(lengths, i + 1, acc + lengths[i])

CumSum0(lengths) == CumSumFrom(lengths, 1, 0)

\* KeyedJaggedTensor(values=, keys=, weights=, lengths=): the offsets are
\* the cumulative sums of the lengths.
KeyedJaggedTensor(values, keys, weights, lengths) ==
    [keys |-> keys, lengths |-> lengths, offsets |-> CumSum0(lengths),
     values |-> values, weights |-> weights]

\* len(lengths) // len(keys)
Numel(t) == Len(t.lengths) \div Len(t.keys)

\* _shape of a KeyedJaggedTensor: torch.Size([numel]).
_shape(t) == <<Numel(t)>>

\* flat.view(K, numel)[k - 1, i]
View(flat, numel, k, i) == flat[(k - 1) * numel + i + 1]

\* The integers of S in ascending order, as torch's mask indexing yields them.
Ascending(S, total) == SelectSeq([i \in 1..total |-> i - 1], LAMBDA p : p \in S)

\* Lines 434-442 and 521-524, 539-543: the positions p of the flat buffer
\* with offsets[:-1][k, i] <= p < offsets[1:][k, i] for a key k and a row i
\* of the index l (sel.any(0).any(0)).  offsets[:-1].view(K, numel)[k, i]
\* is entry k * numel + i of offsets, and offsets[1:].view(K, numel)[k, i]
\* is the entry after it.
Selected(offsets, K, numel, l) ==
    {p \in 0..(offsets[Len(offsets)] - 1) :
        \E k \in 1..K, j \in 1..Len(l) :
            /\ p >= View(offsets, numel, k, l[j])
            /\ p < View(offsets, numel, k, l[j] + 1)}

\* The kept positions with the negation of the mask forgotten.
KeptOf_notNegated(total, sel) == sel

\* Lines 525 and 548: (~sel).all(0).all(0), the positions of no selected row.
KeptOf(total, sel) == (0..(total - 1)) \ sel

\* Lines 438 and 443: torch.arange(total).view(1, 1, -1).squeeze() is a
\* 0-d tensor when total = 1, and indexing it with the 1-D mask raises IndexError.
SqueezeFails(total) == total = 1

\* An index of the batch dimension: an int or a list of rows.
IntIndex(v) == [k |-> "int", v |-> v, l |-> <<>>]
ListIndex(l) == [k |-> "list", v |-> 0, l |-> l]

NoKJT == KeyedJaggedTensor(<<>>, <<>>, <<>>, <<>>)

\* buf[pos[1]], buf[pos[2]], ... with 0-based positions.
Gather(buf, pos) == [i \in 1..Len(pos) |-> buf[pos[i] + 1]]

index_keyedjaggedtensor(kjt, index) ==
    IF index.k = "int"                                           \* 422-428
    THEN Raised("ValueError")
    ELSE LET K == Len(kjt.keys)                                  \* 429-432
             numel == Numel(kjt)
             l == index.l
             lengths ==                                          \* 436
                 [m \in 1..(K * Len(l)) |->
                     View(kjt.lengths, numel, ((m - 1) \div Len(l)) + 1,
                          l[((m - 1) % Len(l)) + 1])]
             total == kjt.offsets[Len(kjt.offsets)]              \* 438
             sel == Selected(kjt.offsets, K, numel, l)           \* 434-442
         IN IF SqueezeFails(total)                               \* 443
            THEN Raised("IndexError")
            ELSE LET full_index == Ascending(sel, total)
                 IN Returned(KeyedJaggedTensor(                  \* 444-451
                        Gather(kjt.values, full_index), kjt.keys,
                        Gather(kjt.weights, full_index), lengths))

---------------------------------------------------------------------------
(* setitem_keyedjaggedtensor(orig_tensor, index, other)                    *)

\* The key check comparing only the number of keys.
KeysMatch_lenOnly(other_keys, orig_keys) == Len(other_keys) = Len(orig_keys)

\* Line 507: the two key lists are compared as lists.
KeysMatch(other_keys, orig_keys) == other_keys = orig_keys

\* tensor[pos] = vals succeeds when vals has one entry per position or is
\* a single entry, which is broadcast (also to no position at all).
IndexPutFits(pos, vals) == Len(vals) = Len(pos) \/ Len(vals) = 1

\* tensor[pos] = vals
IndexPut(tensor, pos, vals) ==
    [i \in 1..Len(tensor) |->
        IF \E j \in 1..Len(pos) : pos[j] + 1 = i
        THEN LET j == CHOOSE jj \in 1..Len(pos) : pos[jj] + 1 = i
             IN IF Len(vals) = 1 THEN vals[1] ELSE vals[j]
        ELSE tensor[i]]

\* The rows an index list names.
Rows(l) == {l[j] : j \in 1..Len(l)}

\* Line 517 with a repeated row in the index: the index_put is undefined
\* there, one of the columns written to the row stays.  A choice names, for
\* each row of the index, the position of the index whose column stays.
Winners(l) == {w \in [Rows(l) -> 1..Len(l)] : \A i \in Rows(l) : l[w[i]] = i}

\* Lines 516-518: the new lengths.
LengthsOut(orig, l, other, win) ==
    LET K == Len(orig.keys)
        numel == Numel(orig)
        other_numel == Len(other.lengths) \div Len(other.keys)
    IN [m \in 1..Len(orig.lengths) |->
           LET k == ((m - 1) \div numel) + 1
               i == (m - 1) % numel
           IN IF i \in Rows(l)
              THEN View(other.lengths, other_numel, k,
                        IF other_numel = 1 THEN 0 ELSE win[i] - 1)
              ELSE orig.lengths[m]]

\* The outcome of the call: the error raised and the KeyedJaggedTensor that
\* orig_tensor is afterwards.  win resolves line 517 for a repeated row and
\* garbage is what torch.empty left in a slot that is never written.
setitem_keyedjaggedtensor(orig, index, other, win, garbage) ==
    LET K == Len(orig.keys)                                       \* 497-500
        numel == Numel(orig)
        other_numel == Len(other.lengths) \div Len(other.keys)    \* 502-504
        l == index.l
    IN IF ~KeysMatch(other.keys, orig.keys)                       \* 507-508
       THEN [err |-> "KeyError", val |-> orig]
       ELSE IF other_numel /= Len(l) /\ other_numel /= 1          \* 517
       THEN [err |-> "RuntimeError: shape mismatch", val |-> orig]
       ELSE
       LET lengths_out == LengthsOut(orig, l, other, win)         \* 516-518
           total == orig.offsets[Len(orig.offsets)]               \* 521
           keep == KeptOf(total, Selected(orig.offsets, K, numel, l))  \* 522-525
           offsets_new == CumSum0(lengths_out)                    \* 533-534
           total_new == offsets_new[Len(offsets_new)]             \* 539
           new_sel == Selected(offsets_new, K, numel, l)          \* 540-543
       IN IF SqueezeFails(total) \/ SqueezeFails(total_new)       \* 526, 544
          THEN [err |-> "IndexError", val |-> orig]
          ELSE
          LET index_to_keep == Ascending(keep, total)             \* 525-526
              values_to_keep == Gather(orig.values, index_to_keep)
              weights_to_keep == Gather(orig.weights, index_to_keep)
              new_index_new_elts == Ascending(new_sel, total_new) \* 544
              new_index_to_keep ==                                \* 545-549
                  Ascending(KeptOf(total_new, new_sel), total_new)
              values_numel == Len(values_to_keep) + Len(other.values)  \* 552
              empty == [i \in 1..values_numel |-> garbage]        \* 553-562
          IN IF ~IndexPutFits(new_index_to_keep, values_to_keep)  \* 563
                \/ ~IndexPutFits(new_index_new_elts, other.values)  \* 564
             THEN [err |-> "RuntimeError: shape mismatch", val |-> orig]
             ELSE [err |-> "none",
                   val |-> KeyedJaggedTensor(                     \* 568-576
                       IndexPut(IndexPut(empty, new_index_to_keep, values_to_keep),
                                new_index_new_elts, other.values),
                       orig.keys,
                       IndexPut(IndexPut(empty, new_index_to_keep, weights_to_keep),
                                new_index_new_elts, other.weights),
                       lengths_out)]

---------------------------------------------------------------------------
(* The inputs of the reads and writes.                                     *)

KeyLists == {<<"a">>, <<"a", "b">>}
\* Key lists of a replacement: the above, and lists that differ from them.
OtherKeyLists == KeyLists \cup {<<"b">>}

\* The values / weights a field built from external data holds: n distinct
\* numbers from base + 1 on.
Fresh(base, n) == [i \in 1..n |-> base + i]

\* A layout-valid field with the given keys and lengths.
FreshKJT(keys, lengths, base) ==
    KeyedJaggedTensor(Fresh(base, SumSeq(lengths)), keys,
                      Fresh(base + 100, SumSeq(lengths)), lengths)

\* What an uninitialised slot of torch.empty may hold.
Garbage == {0, -1}

\* Whether the buffer of line 553, sized for the kept values and all of
\* other's values, can be larger than the layout the new lengths describe:
\* only when a repeated row of the index drops a column of other.
LeavesSlots(orig, l, other) == Cardinality(Rows(l)) < Len(l)

\* The index lists of in-range rows, in any order, repeats included.
IndexLists(n) == SeqsUpTo(0..(n - 1), n)

InitKJT ==
    /\ pc = "kjt"
    /\ \E keys \in KeyLists, n \in 1..MaxBatch :
         \E lengths \in [1..(Len(keys) * n) -> 0..MaxLen] :
            orig_tensor = FreshKJT(keys, lengths, 0)
    /\ call = [op |-> "none", index |-> ListIndex(<<>>), other |-> NoKJT,
               back |-> FALSE, win |-> <<>>, err |-> "none"]
    /\ before = orig_tensor
    /\ out = NoKJT
    /\ nwrites = 0
    /\ IdleShape
    /\ IdleEllipsis
    /\ IdleInfer
    /\ IdleNormal

\* _get_item(orig_tensor, index): index_keyedjaggedtensor.
GetItem ==
    /\ pc = "kjt"
    /\ \E index \in {ListIndex(l) : l \in IndexLists(Numel(orig_tensor))}
                      \cup {IntIndex(v) : v \in 0..(Numel(orig_tensor) - 1)} :
         LET r == index_keyedjaggedtensor(orig_tensor, index)
         IN /\ call' = [op |-> "read", index |-> index, other |-> NoKJT,
                        back |-> FALSE, win |-> <<>>, err |-> r.err]
            /\ out' = IF r.err = "none" THEN r.val ELSE NoKJT
    /\ before' = orig_tensor
    /\ UNCHANGED <<pc, orig_tensor, nwrites, shapeVars, ellipsisVars, inferVars, normalVars>>

\* The write of `other` at `index`, shared by the two callers below.
DoSetItem(index, other, back) ==
    \E win \in Winners(index.l),
       garbage \in (IF LeavesSlots(orig_tensor, index.l, other)
                    THEN Garbage ELSE {0}) :
        LET r == setitem_keyedjaggedtensor(orig_tensor, index, other, win, garbage)
        IN /\ orig_tensor' = r.val
           /\ call' = [op |-> "write", index |-> index, other |-> other,
                       back |-> back, win |-> win, err |-> r.err]
           /\ before' = orig_tensor
           /\ out' = NoKJT
           /\ nwrites' = nwrites + 1
           /\ UNCHANGED <<pc, shapeVars, ellipsisVars, inferVars, normalVars>>

\* _set_item(orig_tensor, other, index) with a replacement built from
\* external data that covers len(index) rows.
SetItem ==
    /\ pc = "kjt"
    /\ nwrites < MaxWrites
    /\ \E l \in IndexLists(Numel(orig_tensor)), keys \in OtherKeyLists :
         \E lengths \in [1..(Len(keys) * Len(l)) -> 0..MaxLen] :
            DoSetItem(ListIndex(l), FreshKJT(keys, lengths, 50), FALSE)

\* _set_item(orig_tensor, _get_item(orig_tensor, index), index): what the
\* last read returned is written back at the rows it was read from.
SetItemReadBack ==
    /\ pc = "kjt"
    /\ nwrites < MaxWrites
    /\ call.op = "read" /\ call.err = "none"
    /\ DoSetItem(call.index, out, TRUE)

NextKJT == GetItem \/ SetItem \/ SetItemReadBack

SpecKJT == InitKJT /\ [][NextKJT]_vars

---------------------------------------------------------------------------
(* Claims on the KeyedJaggedTensor read and write.                         *)

\* The values / weights of batch row i (0-based) under key k of field t.
RowOf(t, buf, k, i) ==
    SubSeq(buf, View(t.offsets, Numel(t), k, i) + 1,
                View(t.offsets, Numel(t), k, i + 1))

\* Rows i of t and j of u hold the same values and weights under key k.
SameRow(t, i, u, j, k) ==
    /\ View(t.lengths, Numel(t), k, i) = View(u.lengths, Numel(u), k, j)
    /\ RowOf(t, t.values, k, i) = RowOf(u, u.values, k, j)
    /\ RowOf(t, t.weights, k, i) = RowOf(u, u.weights, k, j)

\* The layout invariant of a field with K keys.
LayoutValid(t) ==
    /\ Len(t.lengths) = Len(t.keys) * Numel(t)
    /\ t.offsets = CumSum0(t.lengths)
    /\ SumSeq(t.lengths) = Len(t.values)
    /\ Len(t.values) = Len(t.weights)

Distinct(l) == Cardinality(Rows(l)) = Len(l)

KeySet(keys) == {keys[i] : i \in 1..Len(keys)}

\* C2: the field a read with a list of in-range rows returns has batch size
\* len(idx), and its row j under every key holds the values, weights and
\* length of row idx[j] of the source, whatever the order of idx.  (The
\* claim as stated, here for lists without a repeated row; the code breaks
\* it.)
C2_ReadReturnsRowsInIndexOrder ==
    (call.op = "read" /\ call.index.k = "list" /\ call.err = "none"
        /\ Distinct(call.index.l))
        => /\ Len(out.lengths) = Len(out.keys) * Len(call.index.l)
           /\ \A k \in 1..Len(orig_tensor.keys), j \in 1..Len(call.index.l) :
                SameRow(out, j - 1, orig_tensor, call.index.l[j], k)

\* The replacement of the last write is layout-valid, has the keys of the
\* target and covers len(idx) rows.
WriteOfValidOther ==
    /\ call.op = "write" /\ ~call.back
    /\ call.other.keys = before.keys
    /\ LayoutValid(call.other)
    /\ Len(call.other.lengths) = Len(call.other.keys) * Len(call.index.l)

\* C3: after a write with a list of distinct in-range rows in any order,
\* row idx[j] of the target holds row j of the replacement under every key,
\* and every other row is what it was.  (The claim as stated; the code
\* breaks it.)
C3_WriteSetsRowsInIndexOrder ==
    (WriteOfValidOther /\ call.err = "none" /\ Distinct(call.index.l))
        => \A k \in 1..Len(before.keys) :
             /\ \A j \in 1..Len(call.index.l) :
                  SameRow(orig_tensor, call.index.l[j], call.other, j - 1, k)
             /\ \A i \in (0..(Numel(before) - 1)) \ Rows(call.index.l) :
                  SameRow(orig_tensor, i, before, i, k)

\* Line 517 resolved as a sequential index_put does: for a repeated row the
\* column written last stays.
LastWins ==
    \A i \in Rows(call.index.l) :
        \A j \in 1..Len(call.index.l) : call.index.l[j] = i => j <= call.win[i]

\* C4: after every successful write, with a repeated row in the index or
\* not, the target has its K * N lengths, offsets that are the cumulative
\* sums of the lengths, and sum(lengths) = len(values) = len(weights).
\* (The claim as stated, here for the writes in which the last column
\* written to a repeated row stays; the code breaks it.)
C4_WriteKeepsLayout ==
    (WriteOfValidOther /\ call.err = "none" /\ LastWins)
        => /\ LayoutValid(orig_tensor)
           /\ orig_tensor.keys = before.keys
           /\ Len(orig_tensor.lengths) = Len(before.lengths)

C11_IntRejectedOneRowListReads ==
    (call.op = "read")
        => /\ (call.index.k = "int")
                => /\ call.err = "ValueError"
                   /\ out = NoKJT
                   /\ orig_tensor = before
           /\ (call.index.k = "list" /\ Len(call.index.l) = 1)
                => /\ call.err = "none"
                   /\ out.keys = orig_tensor.keys
                   /\ _shape(out) = <<1>>
                   /\ orig_tensor = before


---------------------------------------------------------------------------
(* infer_size_impl(shape, numel).  A list object is a record: its elements *)
(* and whether it is the very list the caller passed (fresh = FALSE), so   *)
(* that a write to it shows in the caller's list.                          *)

\* Lines 199-203: a new list with the elements of self, appended in order.
_copy(self) == [fresh |-> TRUE, list |-> [i \in 1..Len(self) |-> self[i]]]

\* Lines 214-224: the loop over the dimensions.  dim is the 0-based
\* position, infer_dim is -1 for None.  Returns <<error, newsize, infer_dim>>.
RECURSIVE ScanShape(_, _, _, _)
ScanShape(shp, dim, newsize, infer_dim) ==
    IF dim >= Len(shp) THEN <<"none", newsize, infer_dim>>
    ELSE IF shp[dim + 1] = -1
    THEN IF infer_dim /= -1
         THEN <<"AssertionError: only one dimension can be inferred",
                newsize, infer_dim>>
         ELSE ScanShape(shp, dim + 1, newsize, dim)
    ELSE IF shp[dim + 1] >= 0
    THEN ScanShape(shp, dim + 1, newsize * shp[dim + 1], infer_dim)
    ELSE <<"AssertionError: invalid shape dimensions", newsize, infer_dim>>

\* Lines 225-228: the condition under which the shape is accepted.
ShapeFits(n, newsize, infer_dim) ==
    \/ n = newsize
    \/ (infer_dim /= -1 /\ newsize > 0 /\ n % newsize = 0)

\* The outcome, and the caller's list after the call (arg).
infer_size_impl(shp, n) ==
    LET scan == ScanShape(shp, 0, 1, -1)                        \* 212-224
        newsize == scan[2]
        infer_dim == scan[3]
    IN IF scan[1] /= "none"
       THEN [err |-> scan[1], val |-> <<>>, arg |-> shp]
       ELSE IF ~ShapeFits(n, newsize, infer_dim)                \* 225-229
       THEN [err |-> "AssertionError: invalid shape", val |-> <<>>, arg |-> shp]
       ELSE LET copied == _copy(shp)                            \* 230
            IN IF infer_dim = -1                                \* 231
               THEN [err |-> "none", val |-> copied.list, arg |-> shp]
               ELSE IF newsize = 0                              \* 232: numel // 0
               THEN [err |-> "ZeroDivisionError", val |-> <<>>, arg |-> shp]
               ELSE LET written ==
                            [copied.list EXCEPT ![infer_dim + 1] = n \div newsize]
                    IN [err |-> "none", val |-> written,        \* 232-233
                        arg |-> IF copied.fresh THEN shp ELSE written]

\* Shapes handed to infer_size_impl: entries from -2 (not a valid entry) up.
ViewDims == (-2)..MaxViewDim
ViewShapes == SeqsUpTo(ViewDims, MaxViewRank)

InitInfer ==
    /\ pc = "infer_call"
    /\ view_shape \in ViewShapes
    /\ given_shape = view_shape
    /\ view_numel \in 0..MaxNumel
    /\ inferred = Pending
    /\ IdleShape
    /\ IdleEllipsis
    /\ IdleKJT
    /\ IdleNormal

\* The call infer_size_impl(view_shape, view_numel).
InferSizeImpl ==
    /\ pc = "infer_call"
    /\ LET r == infer_size_impl(view_shape, view_numel)
       IN /\ inferred' = [err |-> r.err, val |-> r.val]
          /\ view_shape' = r.arg
    /\ pc' = "infer_done"
    /\ UNCHANGED <<given_shape, view_numel, shapeVars, ellipsisVars, kjtVars,
                   normalVars>>

NextInfer == InferSizeImpl

SpecInfer == InitInfer /\ [][NextInfer]_vars

---------------------------------------------------------------------------
(* Claims on infer_size_impl.                                              *)

InferDone == pc = "infer_done"

RECURSIVE Product(_)
Product(s) == IF s = <<>> THEN 1 ELSE Head(s) * Product(Tail(s))

InferPositions == {i \in 1..Len(given_shape) : given_shape[i] = -1}

\* C14: for a shape with entries >= -1 and numel >= 0, infer_size_impl
\* raises AssertionError or returns a list of the same length that equals
\* the shape except at the one -1, which is replaced by a non-negative
\* integer making the product numel; it raises no other error and leaves
\* the list it was passed as it was.
\* (The claim as stated; the code breaks it.)
C14_InferSizeReturnsOrAsserts ==
    (InferDone /\ \A i \in 1..Len(given_shape) : given_shape[i] >= -1)
        => /\ view_shape = given_shape
           /\ \/ inferred.err \in
                    {"AssertionError: only one dimension can be inferred",
                     "AssertionError: invalid shape dimensions",
                     "AssertionError: invalid shape"}
              \/ /\ inferred.err = "none"
                 /\ Len(inferred.val) = Len(given_shape)
                 /\ Cardinality(InferPositions) <= 1
                 /\ \A i \in 1..Len(given_shape) :
                        IF i \in InferPositions
                        THEN inferred.val[i] >= 0
                        ELSE inferred.val[i] = given_shape[i]
                 /\ Product(inferred.val) = view_numel


---------------------------------------------------------------------------
(* NormalParamWrapper.forward (nn/distributions/continuous.py).            *)
(* A float is a record: NaN, or a number in fixed point, counted in units  *)
(* of 1e-6 and rounded to the nearest unit.  A tensor is the sequence of   *)
(* the elements of its last dimension.                                     *)

\* The number of units of 1.0.
Unit == 1000000

Num(v) == [nan |-> FALSE, v |-> v]
NaN == [nan |-> TRUE, v |-> 0]

\* The comparisons of floats: every comparison with NaN is false.
Gt(a, b) == ~a.nan /\ ~b.nan /\ a.v > b.v
Ge(a, b) == ~a.nan /\ ~b.nan /\ a.v >= b.v

\* The whole numbers the elements of an operator's output take here.
NetWhole == {-10, -3, -1, 0, 2}

\* exp(x), log(1 + exp(x)) and log(1 + exp(x + log(e - 1))) in units.
ExpUnits ==
    (-10 :> 45) @@ (-3 :> 49787) @@ (-1 :> 367879) @@ (0 :> 1000000) @@ (2 :> 7389056)
SoftplusUnits ==
    (-10 :> 45) @@ (-3 :> 48587) @@ (-1 :> 313262) @@ (0 :> 693147) @@ (2 :> 2126928)
BiasedSoftplusUnits ==
    (-10 :> 78) @@ (-3 :> 82085) @@ (-1 :> 489880) @@ (0 :> 1000000) @@ (2 :> 2617139)

\* The registered mappings by name; each maps NaN to NaN.
ScaleMappings == {"softplus", "exp", "relu", "biased_softplus_1.0"}

\* mappings(key)(x)
mappings(key, x) ==
    IF x.nan THEN NaN
    ELSE CASE key = "relu" -> Num(Max(x.v, 0))
           [] key = "exp" -> Num(ExpUnits[x.v \div Unit])
           [] key = "softplus" -> Num(SoftplusUnits[x.v \div Unit])
           [] key = "biased_softplus_1.0" -> Num(BiasedSoftplusUnits[x.v \div Unit])

\* clamp_min that leaves its input as it is.
clamp_min_unclamped(x, lb) == x

\* Line 69, x.clamp_min(lb): the larger of x and lb; NaN stays NaN.
clamp_min(x, lb) == IF x.nan THEN NaN ELSE Num(Max(x.v, lb))

\* Line 68, net_output.chunk(2, -1): pieces of ceil(n / 2) elements; two
\* empty pieces for n = 0, one piece for n = 1.
chunk(t) ==
    LET n == Len(t)
        size == (n + 1) \div 2
    IN IF n = 1 THEN <<t>>
       ELSE <<SubSeq(t, 1, size), SubSeq(t, size + 1, n)>>

\* Lines 63-70.  o is what the operator returned: its first tensor and the
\* other values, which are passed on.
forward(o, key, lb) ==
    LET chunks == chunk(o.tensor)                               \* 68
    IN IF Len(chunks) /= 2
       THEN Raised("ValueError")       \* loc, scale = (one piece)
       ELSE LET loc == chunks[1]
                scale == [i \in 1..Len(chunks[2]) |->           \* 69
                             clamp_min(mappings(key, chunks[2][i]), lb)]
            IN Returned([loc |-> loc, scale |-> scale, others |-> o.others])

NetValues == {Num(x * Unit) : x \in NetWhole} \cup {NaN}
\* Lower bounds: 0, the default 1e-4, and 1.0.
ScaleLbs == {0, Unit \div 10000, Unit}

InitNormal ==
    /\ pc = "normal_call"
    /\ \E t \in SeqsUpTo(NetValues, MaxOut), others \in {<<>>, <<"hidden">>} :
          net_output = [tensor |-> t, others |-> others]
    /\ scale_mapping \in ScaleMappings
    /\ scale_lb \in ScaleLbs
    /\ loc_scale = Pending
    /\ IdleShape
    /\ IdleEllipsis
    /\ IdleKJT
    /\ IdleInfer

\* The call module_normal(*tensors).
Forward ==
    /\ pc = "normal_call"
    /\ loc_scale' = forward(net_output, scale_mapping, scale_lb)
    /\ pc' = "normal_done"
    /\ UNCHANGED <<net_output, scale_mapping, scale_lb,
                   shapeVars, ellipsisVars, kjtVars, inferVars>>

NextNormal == Forward

SpecNormal == InitNormal /\ [][NextNormal]_vars

---------------------------------------------------------------------------
(* Claims on NormalParamWrapper.forward.                                   *)

NormalReturned == pc = "normal_done" /\ loc_scale.err = "none"

\* The second half of the operator's output, and its mapped value.
RawScale == chunk(net_output.tensor)[2]
Mapped(i) == mappings(scale_mapping, RawScale[i])

\* C12 as stated: every element of the returned scale is strictly greater
\* than scale_lb, whatever the mapping and the operator's output.
C12_ScaleAboveLowerBound_asStated ==
    NormalReturned
        => \A i \in 1..Len(loc_scale.val.scale) :
              Gt(loc_scale.val.scale[i], Num(scale_lb))

\* C12 amended: every element of the returned scale whose operator output
\* is a number (not NaN) is greater than or equal to scale_lb; it is
\* scale_lb where the mapped value is at most scale_lb and the mapped value
\* elsewhere.
C12_ScaleAtLeastLowerBound ==
    NormalReturned
        => /\ Len(loc_scale.val.scale) = Len(RawScale)
           /\ \A i \in 1..Len(RawScale) :
                 ~RawScale[i].nan
                    => /\ Ge(loc_scale.val.scale[i], Num(scale_lb))
                       /\ loc_scale.val.scale[i] =
                             IF Gt(Mapped(i), Num(scale_lb))
                             THEN Mapped(i) ELSE Num(scale_lb)

C12_Witness ==
    /\ NormalReturned
    /\ scale_mapping = "relu"
    /\ scale_lb = Unit \div 10000
    /\ Len(RawScale) = 2
    /\ RawScale[1] = Num(-1 * Unit)
    /\ loc_scale.val.scale[1] = Num(scale_lb)
    /\ RawScale[2] = Num(2 * Unit)
    /\ loc_scale.val.scale[2] = Num(2 * Unit)

============================================================================
